---- MODULE Spec2Model ----
(***************************************************************************)
(* A model of src/SpaceInvaders.c, the five-state version of the game      *)
(* (lines 286-763): the game-state machine driven by Update, the alien     *)
(* and bullet pools with their ring cursors, and the play-state step.      *)
(*                                                                         *)
(* Positions are kept in units of alienSpeed (half a pixel), so that the   *)
(* float arithmetic of the program is exact integer arithmetic here:       *)
(* Px(n) is n pixels.  Times are kept in ticks, TicksPerSecond to the      *)
(* second; a frame lasts 1..MaxFrameTicks ticks.                           *)
(***************************************************************************)
EXTENDS Integers, Sequences, FiniteSets, TLC

\* ---------------------------------------------------------------- bounds
TicksPerSecond == 1
MaxFrameTicks == 2
MaxUpdates == 7
MaxSteps == 2
MaxWave == 13
MaxMarchUpdates == 345
MaxIdleFrames == 1

\* ------------------------------------------------------ program constants
MAX_ALIEN_COUNT == 64
MAX_BULLET_COUNT == 64
screenWidth == 960
screenHalfWidth == 480
screenHeight == 540
screenHalfHeight == 270
playerWidth == 8
playerHalfWidth == 4
playerHalfHeight == 4
alienWidth == 8
alienHalfWidth == 4
playerBulletRadius == 4
alienBulletRadius == 2
playerSpeed == 3
alienSpeedDen == 2
playerBulletSpeed == 2
alienBulletSpeed == 1
delayThreshold == 3
animationThresholdDen == 2
animationFrameCount == 2
initialLives == 3
initialWave == 1
spawnColumnMin == -5
spawnColumnMax == 5
spawnRowsMax == 5
spawnRowOffsetY == 20
cameraBoundsX == 360
cameraBoundsY == 150

startState == "start"
readyState == "ready"
playState == "play"
winState == "win"
loseState == "lose"
GameStates == {startState, readyState, playState, winState, loseState}

Px(n) == n * alienSpeedDen
alienSpeed == 1

cameraBoundsWidth == screenWidth \div 4
cameraBoundsHeight == screenHeight \div 4
initialPlayerX == screenHalfWidth - playerHalfWidth
initialPlayerY == screenHalfHeight - playerHalfHeight
cameraTargetX == initialPlayerX + playerHalfWidth

Threshold == delayThreshold * TicksPerSecond
FrameTimes == 1..MaxFrameTicks

AlienSlots == 0..(MAX_ALIEN_COUNT - 1)
BulletSlots == 0..(MAX_BULLET_COUNT - 1)

\* The element of a one-element set.  {F(v) : v \in {e}} is F applied to the
\* value of e, e evaluated once: one statement run after another.
The(S) == CHOOSE r \in S : TRUE

Clamp(v, lo, hi) == IF v < lo THEN lo ELSE IF v > hi THEN hi ELSE v

\* ------------------------------------------------------------------ state
VARIABLES gameState, player, aliens, nextAvailableAlien, bullets,
          nextAvailableBullet, wave, frameTime, readyElapsed, winElapsed,
          loseElapsed, alienFrameIndex, alienFrameElapsed, alienDirection,
          updates, prevGameState, prevAlive, aliensAcquired, bulletsAcquired,
          sinceEntry, lastInput

progVars == <<gameState, player, aliens, nextAvailableAlien, bullets,
              nextAvailableBullet, wave, frameTime, readyElapsed, winElapsed,
              loseElapsed, alienFrameIndex, alienFrameElapsed, alienDirection>>
historyVars == <<updates, prevGameState, prevAlive, aliensAcquired,
                 bulletsAcquired, sinceEntry, lastInput>>
vars == <<progVars, historyVars>>

\* The program's globals as one record, the value the handlers work on.
World ==
    [gameState |-> gameState, player |-> player, aliens |-> aliens,
     nextAvailableAlien |-> nextAvailableAlien, bullets |-> bullets,
     nextAvailableBullet |-> nextAvailableBullet, wave |-> wave,
     frameTime |-> frameTime, readyElapsed |-> readyElapsed,
     winElapsed |-> winElapsed, loseElapsed |-> loseElapsed,
     alienFrameIndex |-> alienFrameIndex,
     alienFrameElapsed |-> alienFrameElapsed,
     alienDirection |-> alienDirection]

DeadAlien == [x |-> 0, y |-> 0, alive |-> FALSE]
IdleBullet == [x |-> 0, y |-> 0, belongsToPlayer |-> FALSE, active |-> FALSE]
InitialPlayer ==
    [x |-> Px(initialPlayerX), y |-> Px(initialPlayerY),
     livesRemaining |-> initialLives, alive |-> TRUE]

\* Initialize(): the globals after construction.
InitialWorld ==
    [gameState |-> startState, player |-> InitialPlayer,
     aliens |-> [i \in AlienSlots |-> DeadAlien], nextAvailableAlien |-> 0,
     bullets |-> [i \in BulletSlots |-> IdleBullet], nextAvailableBullet |-> 0,
     wave |-> initialWave, frameTime |-> 0, readyElapsed |-> 0,
     winElapsed |-> 0, loseElapsed |-> 0, alienFrameIndex |-> 0,
     alienFrameElapsed |-> 0, alienDirection |-> 0]

AliveAliens(as) == {i \in AlienSlots : as[i].alive}
ActiveBullets(bs) == {i \in BulletSlots : bs[i].active}
AliveAlienCount == Cardinality(AliveAliens(aliens))

\* ------------------------------------------------------------ transitions
FromStartToReadyState(w) == [w EXCEPT !.gameState = readyState]

SpawnRows(w) == Clamp(w.wave \div 3 + 1, 1, spawnRowsMax)

\* One pass of the body of the column loop: acquire the slot at the cursor.
SpawnAlien(w, column) ==
    [w EXCEPT
       !.aliens[w.nextAvailableAlien] =
           [x |-> Px(cameraTargetX - column * (alienWidth + alienHalfWidth)),
            y |-> Px(cameraBoundsY + spawnRowOffsetY),
            alive |-> TRUE],
       !.nextAvailableAlien = (w.nextAvailableAlien + 1) % MAX_ALIEN_COUNT]

RECURSIVE SpawnColumns(_, _)
SpawnColumns(w, column) ==
    IF column > spawnColumnMax THEN w
    ELSE The({SpawnColumns(SpawnAlien(v, column), column + 1) : v \in {w}})

RECURSIVE SpawnRowLoop(_, _, _)
SpawnRowLoop(w, row, rows) ==
    IF row >= rows THEN w
    ELSE The({SpawnRowLoop(SpawnColumns(v, spawnColumnMin), row + 1, rows) :
                 v \in {w}})

FromReadyToPlayState_RowsOffByOne(w) ==
    SpawnRowLoop([w EXCEPT !.gameState = playState], 0,
                 Clamp(w.wave \div 3, 1, spawnRowsMax))

FromReadyToPlayState(w) ==
    SpawnRowLoop([w EXCEPT !.gameState = playState], 0, SpawnRows(w))

FromPlayToWinState(w) == [w EXCEPT !.gameState = winState]
FromPlayToLoseState(w) == [w EXCEPT !.gameState = loseState]
FromWinToReadyState(w) == [w EXCEPT !.gameState = readyState]
FromLoseToReadyState_TakesWave(w) ==
    [w EXCEPT !.gameState = readyState, !.wave = @ - 1]
FromLoseToReadyState(w) == [w EXCEPT !.gameState = readyState]
FromLoseToStartState(w) == [w EXCEPT !.gameState = startState]

\* ---------------------------------------------------------------- updates
UpdateAlienAnimations(w) ==
    LET e == w.alienFrameElapsed + w.frameTime
    IN  IF e * animationThresholdDen > TicksPerSecond
        THEN [w EXCEPT !.alienFrameElapsed = 0,
                       !.alienFrameIndex =
                           (w.alienFrameIndex + 1) % animationFrameCount]
        ELSE [w EXCEPT !.alienFrameElapsed = e]

UpdateStartState_SkipsReady(w, in) ==
    IF in.spaceDown THEN FromReadyToPlayState(w) ELSE w

UpdateStartState_AnyKey(w, in) ==
    IF in.spaceDown \/ in.left \/ in.right THEN FromStartToReadyState(w) ELSE w

UpdateStartState(w, in) ==
    IF in.spaceDown THEN FromStartToReadyState(w) ELSE w

UpdateReadyState(w, in) ==
    LET w1 == [w EXCEPT !.readyElapsed = w.readyElapsed + w.frameTime]
    IN  IF w1.readyElapsed > Threshold THEN FromReadyToPlayState(w1) ELSE w1

UpdateWinState_NoTimer(w, in) ==
    IF w.winElapsed > Threshold THEN FromWinToReadyState(w) ELSE w

UpdateWinState(w, in) ==
    LET w1 == [w EXCEPT !.winElapsed = w.winElapsed + w.frameTime]
    IN  IF w1.winElapsed > Threshold THEN FromWinToReadyState(w1) ELSE w1

UpdateLoseState(w, in) ==
    LET w1 == UpdateAlienAnimations(w)
        w2 == [w1 EXCEPT !.loseElapsed = w1.loseElapsed + w1.frameTime]
    IN  IF w2.loseElapsed > Threshold
        THEN IF w2.player.livesRemaining > 0
             THEN FromLoseToReadyState(w2)
             ELSE FromLoseToStartState(w2)
        ELSE w2

MovePlayer_ClampsLeftOnly(w, in) ==
    LET xl == IF in.left
              THEN IF w.player.x - Px(playerSpeed) < Px(cameraBoundsX)
                   THEN Px(cameraBoundsX)
                   ELSE w.player.x - Px(playerSpeed)
              ELSE w.player.x
        xr == IF in.right THEN xl + Px(playerSpeed) ELSE xl
    IN  [w EXCEPT !.player.x = xr]

\* Lines 657-673: the held-direction keys, each clamped to its bound.
MovePlayer(w, in) ==
    LET xl == IF in.left
              THEN IF w.player.x - Px(playerSpeed) < Px(cameraBoundsX)
                   THEN Px(cameraBoundsX)
                   ELSE w.player.x - Px(playerSpeed)
              ELSE w.player.x
        rightBound == Px(cameraBoundsX + cameraBoundsWidth - playerWidth)
        xr == IF in.right
              THEN IF xl + Px(playerSpeed) > rightBound
                   THEN rightBound
                   ELSE xl + Px(playerSpeed)
              ELSE xl
    IN  [w EXCEPT !.player.x = xr]

FireBullet_NoWrap(w, in) ==
    IF in.spacePressed
    THEN [w EXCEPT
            !.bullets[w.nextAvailableBullet] =
                [x |-> w.player.x + Px(playerHalfWidth),
                 y |-> w.player.y - Px(playerBulletRadius),
                 belongsToPlayer |-> TRUE, active |-> TRUE],
            !.nextAvailableBullet = w.nextAvailableBullet + 1]
    ELSE w

\* Lines 674-681: the fire key acquires the bullet slot at the cursor.
FireBullet(w, in) ==
    IF in.spacePressed
    THEN [w EXCEPT
            !.bullets[w.nextAvailableBullet] =
                [x |-> w.player.x + Px(playerHalfWidth),
                 y |-> w.player.y - Px(playerBulletRadius),
                 belongsToPlayer |-> TRUE, active |-> TRUE],
            !.nextAvailableBullet =
                (w.nextAvailableBullet + 1) % MAX_BULLET_COUNT]
    ELSE w

MoveAliens_NeverTurns(w) ==
    [w EXCEPT !.aliens =
        [i \in AlienSlots |->
            IF w.aliens[i].alive
            THEN IF w.alienDirection = 0
                 THEN [w.aliens[i] EXCEPT !.x = @ + alienSpeed]
                 ELSE [w.aliens[i] EXCEPT !.x = @ - alienSpeed]
            ELSE w.aliens[i]]]

MoveAliens_FlipsInPass(w) ==
    LET dir == w.alienDirection
        step(d) == IF d = 0 THEN alienSpeed ELSE 0 - alienSpeed
        passes(j) == /\ w.aliens[j].alive
                     /\ IF dir = 0
                        THEN w.aliens[j].x + alienSpeed
                                > Px(cameraBoundsX + cameraBoundsWidth - alienWidth)
                        ELSE w.aliens[j].x - alienSpeed < Px(cameraBoundsX)
        dirAt(i) == IF \E j \in AlienSlots : j < i /\ passes(j)
                    THEN 1 - dir ELSE dir
        moved == [i \in AlienSlots |->
                    IF w.aliens[i].alive
                    THEN [w.aliens[i] EXCEPT !.x = @ + step(dirAt(i))]
                    ELSE w.aliens[i]]
    IN  [w EXCEPT !.aliens = moved,
                  !.alienDirection =
                      IF \E j \in AlienSlots : passes(j) THEN 1 - dir ELSE dir]

\* Lines 683-707: every live alien moves in the direction read before the
\* pass; the new direction is stored after the pass.
MoveAliens(w) ==
    LET dir == w.alienDirection
        moved == [i \in AlienSlots |->
                    IF w.aliens[i].alive
                    THEN IF dir = 0
                         THEN [w.aliens[i] EXCEPT !.x = @ + alienSpeed]
                         ELSE [w.aliens[i] EXCEPT !.x = @ - alienSpeed]
                    ELSE w.aliens[i]]
        pastRight == \E i \in AlienSlots :
                        /\ moved[i].alive
                        /\ moved[i].x > Px(cameraBoundsX + cameraBoundsWidth - alienWidth)
        pastLeft == \E i \in AlienSlots :
                        /\ moved[i].alive
                        /\ moved[i].x < Px(cameraBoundsX)
        newAlienDirection == IF dir = 0
                             THEN (IF pastRight THEN 1 ELSE 0)
                             ELSE (IF pastLeft THEN 0 ELSE 1)
    IN  [w EXCEPT !.aliens = moved, !.alienDirection = newAlienDirection]

MoveBullet_KeepsActive(b) ==
    LET y1 == IF b.belongsToPlayer
              THEN b.y - Px(playerBulletSpeed)
              ELSE b.y + Px(alienBulletSpeed)
    IN  [b EXCEPT !.y = y1]

\* Lines 708-725: every active bullet moves; one above the top bound is
\* deactivated.
MoveBullet(b) ==
    LET y1 == IF b.belongsToPlayer
              THEN b.y - Px(playerBulletSpeed)
              ELSE b.y + Px(alienBulletSpeed)
    IN  [b EXCEPT !.y = y1,
                  !.active = IF y1 < Px(cameraBoundsY) THEN FALSE ELSE TRUE]

MoveBullets(w) ==
    [w EXCEPT !.bullets = [i \in BulletSlots |->
                              IF w.bullets[i].active
                              THEN MoveBullet(w.bullets[i])
                              ELSE w.bullets[i]]]

UpdatePlayState(w, in) ==
    The({MoveBullets(w4) : w4 \in
        {MoveAliens(w3) : w3 \in
            {UpdateAlienAnimations(w2) : w2 \in
                {FireBullet(w1, in) : w1 \in {MovePlayer(w, in)}}}}})

UpdateWorld_PlayInLose(w, in) ==
    LET w0 == [w EXCEPT !.frameTime = in.ft]
    IN  IF w0.gameState = startState THEN UpdateStartState(w0, in)
        ELSE IF w0.gameState = readyState THEN UpdateReadyState(w0, in)
        ELSE IF w0.gameState = playState THEN UpdatePlayState(w0, in)
        ELSE IF w0.gameState = winState THEN UpdateWinState(w0, in)
        ELSE UpdatePlayState(w0, in)

\* Update(): read the frame time, then dispatch on the state the call began in.
UpdateWorld(w, in) ==
    LET w0 == [w EXCEPT !.frameTime = in.ft]
    IN  IF w0.gameState = startState THEN UpdateStartState(w0, in)
        ELSE IF w0.gameState = readyState THEN UpdateReadyState(w0, in)
        ELSE IF w0.gameState = playState THEN UpdatePlayState(w0, in)
        ELSE IF w0.gameState = winState THEN UpdateWinState(w0, in)
        ELSE IF w0.gameState = loseState THEN UpdateLoseState(w0, in)
        ELSE w0

\* What the platform hands one Update call: the frame time and the keys.
\* A key pressed this frame is also held.
Inputs ==
    {in \in [ft : FrameTimes, left : BOOLEAN, right : BOOLEAN,
             spaceDown : BOOLEAN, spacePressed : BOOLEAN] :
        in.spacePressed => in.spaceDown}

\* The number of slots an Update call acquires in each pool.
AlienAcquisitions(w, w2) ==
    IF w.gameState = readyState /\ w2.gameState = playState
    THEN SpawnRows(w) * (spawnColumnMax - spawnColumnMin + 1) ELSE 0
BulletAcquisitions(w, in) ==
    IF w.gameState = playState /\ in.spacePressed THEN 1 ELSE 0

Store(w2) ==
    /\ gameState' = w2.gameState
    /\ player' = w2.player
    /\ aliens' = w2.aliens
    /\ nextAvailableAlien' = w2.nextAvailableAlien
    /\ bullets' = w2.bullets
    /\ nextAvailableBullet' = w2.nextAvailableBullet
    /\ wave' = w2.wave
    /\ frameTime' = w2.frameTime
    /\ readyElapsed' = w2.readyElapsed
    /\ winElapsed' = w2.winElapsed
    /\ loseElapsed' = w2.loseElapsed
    /\ alienFrameIndex' = w2.alienFrameIndex
    /\ alienFrameElapsed' = w2.alienFrameElapsed
    /\ alienDirection' = w2.alienDirection

\* The keys the handler of state gs polls; a key it does not poll reads FALSE.
Polled(gs, in) ==
    [ft |-> in.ft,
     left |-> (gs = playState /\ in.left),
     right |-> (gs = playState /\ in.right),
     spaceDown |-> (gs = startState /\ in.spaceDown),
     spacePressed |-> (gs = playState /\ in.spacePressed)]

SinceCap == Threshold + 1
Min(a, b) == IF a < b THEN a ELSE b

\* History of the run: the state the last call began in, the acquisitions
\* made so far, the frame time spent in the current state since entering it.
Record(w, w2, in) ==
    /\ prevGameState' = w.gameState
    /\ prevAlive' = Cardinality(AliveAliens(w.aliens))
    /\ aliensAcquired' = aliensAcquired + AlienAcquisitions(w, w2)
    /\ bulletsAcquired' = bulletsAcquired + BulletAcquisitions(w, in)
    /\ sinceEntry' = IF w2.gameState = w.gameState
                     THEN Min(sinceEntry + in.ft, SinceCap) ELSE 0
    /\ lastInput' = Polled(w.gameState, in)

\* One call of Update() with the input in.
Update(in) ==
    \E w2 \in {UpdateWorld(World, in)} : Store(w2) /\ Record(World, w2, in)

\* The timer the state of world w counts on; before the first call it is the
\* frame time spent in that state.
OwnTimer(w) ==
    IF w.gameState = readyState THEN w.readyElapsed
    ELSE IF w.gameState = winState THEN w.winElapsed
    ELSE IF w.gameState = loseState THEN w.loseElapsed
    ELSE 0

NoInput == [ft |-> 1, left |-> FALSE, right |-> FALSE,
            spaceDown |-> FALSE, spacePressed |-> FALSE]

HistoryInit ==
    /\ updates = 0
    /\ prevGameState = gameState
    /\ prevAlive = AliveAlienCount
    /\ sinceEntry = OwnTimer(World)
    /\ lastInput = NoInput

\* The globals hold the world w.
Load(w) ==
    /\ gameState = w.gameState
    /\ player = w.player
    /\ aliens = w.aliens
    /\ nextAvailableAlien = w.nextAvailableAlien
    /\ bullets = w.bullets
    /\ nextAvailableBullet = w.nextAvailableBullet
    /\ wave = w.wave
    /\ frameTime = w.frameTime
    /\ readyElapsed = w.readyElapsed
    /\ winElapsed = w.winElapsed
    /\ loseElapsed = w.loseElapsed
    /\ alienFrameIndex = w.alienFrameIndex
    /\ alienFrameElapsed = w.alienFrameElapsed
    /\ alienDirection = w.alienDirection

\* ------------------------------------------- the program, from Initialize
Init ==
    /\ Load(InitialWorld)
    /\ HistoryInit
    /\ aliensAcquired = 0
    /\ bulletsAcquired = 0

Next ==
    \E in \in Inputs :
        /\ updates < MaxUpdates
        /\ updates' = updates + 1
        /\ Update(in)

Spec == Init /\ [][Next]_vars

\* ------------------------------------------------ one call, from any state
\* Update() as a function of the globals: the runs below start in a world of
\* each game state and make at most MaxSteps calls.  In this source Play has
\* no exit (FromPlayToWinState and FromPlayToLoseState are never called), so
\* the Win and Lose worlds are the ones those two transitions would leave:
\* readyElapsed is past the threshold, as Ready left it.

\* The number of slots acquired from a pool before the run starts.
AcquiredStarts ==
    {0, 1, MAX_BULLET_COUNT - 1, MAX_BULLET_COUNT, 2 * MAX_BULLET_COUNT - 1}
ElapsedStarts == {0, Threshold}
Waves == 1..MaxWave

ReadyWorld(wv, k, e) ==
    [InitialWorld EXCEPT !.gameState = readyState, !.wave = wv,
                         !.nextAvailableAlien = k % MAX_ALIEN_COUNT,
                         !.readyElapsed = e]

\* Play as Ready leaves it, the wave spawned.
PlayWorld(wv, k) == FromReadyToPlayState(ReadyWorld(wv, k, Threshold + 1))

KeepAliens(w, keep) ==
    [w EXCEPT !.aliens = [i \in AlienSlots |->
                            IF i \in keep THEN w.aliens[i]
                            ELSE [w.aliens[i] EXCEPT !.alive = FALSE]]]

PutBullet(w, slot, b) == [w EXCEPT !.bullets[slot] = b]

\* The alien of column 0 is the last one alive; the bullet fired last is the
\* player's, one frame below the alien.
LastAlienWorld(kb) ==
    LET w == PlayWorld(initialWave, 0)
        a == 0 - spawnColumnMin
        b == [x |-> w.aliens[a].x + Px(alienHalfWidth),
              y |-> w.aliens[a].y + Px(alienHalfWidth + alienHalfWidth
                                       + playerBulletRadius - 1 + playerBulletSpeed),
              belongsToPlayer |-> TRUE, active |-> TRUE]
    IN  PutBullet([KeepAliens(w, {a}) EXCEPT
                      !.nextAvailableBullet = kb % MAX_BULLET_COUNT],
                  (kb - 1) % MAX_BULLET_COUNT, b)

\* The bullet in the slot under the cursor is an alien's, one frame above
\* the player.
AlienBulletWorld(kb) ==
    LET w == PlayWorld(initialWave, 0)
        b == [x |-> w.player.x + Px(playerHalfWidth),
              y |-> w.player.y + Px(playerHalfHeight) - Px(playerHalfWidth
                                       + alienBulletRadius + alienBulletSpeed),
              belongsToPlayer |-> FALSE, active |-> TRUE]
    IN  PutBullet([w EXCEPT !.nextAvailableBullet = kb % MAX_BULLET_COUNT],
                  kb % MAX_BULLET_COUNT, b)

\* The player less than a step from a bound of the play area, where the
\* held keys have taken it (every whole x of the play area is reached from
\* the initial one by steps of playerSpeed and the two clamps).
PlayerEdgeStarts ==
    {cameraBoundsX + 1, cameraBoundsX + cameraBoundsWidth - playerWidth - 1}

PlayerEdgeWorld(x) ==
    [PlayWorld(initialWave, 0) EXCEPT !.player.x = Px(x)]

\* A bullet a step from the bound of the play area it flies to, in the
\* slot acquired last: a player's bullet below the top bound, an alien's
\* above the bottom bound.
BulletEdgeStarts ==
    {<<TRUE, cameraBoundsY + playerBulletSpeed - 1>>,
     <<FALSE, cameraBoundsY + cameraBoundsHeight>>}

BulletEdgeWorld(owner, y) ==
    LET w == PlayWorld(initialWave, 0)
        b == [x |-> w.player.x + Px(playerHalfWidth), y |-> Px(y),
              belongsToPlayer |-> owner, active |-> TRUE]
    IN  PutBullet([w EXCEPT !.nextAvailableBullet = 1], 0, b)

WinWorld(wv, e, dx) ==
    LET w == FromPlayToWinState(KeepAliens(PlayWorld(wv, 0), {}))
    IN  [w EXCEPT !.winElapsed = e, !.player.x = @ + Px(dx)]

LoseWorld(wv, k, e, lives) ==
    LET w == FromPlayToLoseState(PlayWorld(wv, k))
    IN  [w EXCEPT !.loseElapsed = e, !.player.livesRemaining = lives,
                  !.player.x = @ - Px(playerSpeed)]

StepInit ==
    /\ \/ /\ Load(InitialWorld)
          /\ aliensAcquired = 0
          /\ bulletsAcquired = 0
       \/ \E wv \in Waves, k \in AcquiredStarts, e \in ElapsedStarts :
             /\ Load(ReadyWorld(wv, k, e))
             /\ aliensAcquired = k
             /\ bulletsAcquired = 0
       \/ \E kb \in AcquiredStarts \ {0} :
             /\ Load(LastAlienWorld(kb))
             /\ aliensAcquired = nextAvailableAlien
             /\ bulletsAcquired = kb
       \/ \E kb \in AcquiredStarts :
             /\ Load(AlienBulletWorld(kb))
             /\ aliensAcquired = nextAvailableAlien
             /\ bulletsAcquired = kb
       \/ \E x \in PlayerEdgeStarts :
             /\ Load(PlayerEdgeWorld(x))
             /\ aliensAcquired = nextAvailableAlien
             /\ bulletsAcquired = 0
       \/ \E b \in BulletEdgeStarts :
             /\ Load(BulletEdgeWorld(b[1], b[2]))
             /\ aliensAcquired = nextAvailableAlien
             /\ bulletsAcquired = 1
       \/ \E wv \in Waves, e \in ElapsedStarts, dx \in {0, playerSpeed} :
             /\ Load(WinWorld(wv, e, dx))
             /\ aliensAcquired = nextAvailableAlien
             /\ bulletsAcquired = 0
       \/ \E wv \in Waves, k \in {0, MAX_ALIEN_COUNT - 1},
              e \in ElapsedStarts, lives \in 0..initialLives :
             /\ Load(LoseWorld(wv, k, e, lives))
             /\ aliensAcquired = k + AlienAcquisitions(ReadyWorld(wv, k, e),
                                                       PlayWorld(wv, k))
             /\ bulletsAcquired = 0
    /\ HistoryInit

StepNext ==
    \E in \in Inputs :
        /\ updates < MaxSteps
        /\ updates' = updates + 1
        /\ Update(in)

StepSpec == StepInit /\ [][StepNext]_vars

\* ----------------------------------------- the loop, through the waits
\* main() calls Update once per frame until the window closes: Update keeps
\* being called, with positive frame time, which is the fairness stated.  The
\* run is followed until it enters Play: Play has no exit in this source, so
\* nothing a wait does depends on what follows.  Outside Play the only key
\* polled is the fire key, held or not.
LiveNext ==
    \E ft \in FrameTimes, sd \in BOOLEAN :
        /\ gameState # playState
        /\ updates' = updates
        /\ Update([ft |-> ft, left |-> FALSE, right |-> FALSE,
                   spaceDown |-> sd, spacePressed |-> FALSE])

LiveSpec == StepInit /\ [][LiveNext]_vars /\ WF_vars(LiveNext)

\* ------------------------------------------------- the march of a wave
\* The loop from Initialize with the fire key held down throughout and no
\* direction key: Start is left on the first call, Ready by its timer, and
\* in Play the held key fires nothing (IsKeyPressed reports the frame the key
\* goes down).  The run is long enough for the formation to reach the right
\* bound, cross the play area and reach the left bound.
HeldFire == [ft |-> 1, left |-> FALSE, right |-> FALSE,
             spaceDown |-> TRUE, spacePressed |-> FALSE]

MarchNext ==
    /\ updates < MaxMarchUpdates
    /\ updates' = updates + 1
    /\ Update(HeldFire)

MarchSpec == Init /\ [][MarchNext]_vars

\* ------------------------------------------------------- leaving Play
\* FromPlayToWinState() and FromPlayToLoseState() are called by no handler.
\* Here they are called directly, as the end of a Play frame would call
\* them, on the Play worlds above and on the worlds Update makes of them;
\* a second call applies the transition to the world the first one left,
\* and Update goes on from the Win or Lose world they leave.
LeavePlay(w2) ==
    /\ gameState \in {playState, winState, loseState}
    /\ updates < MaxSteps
    /\ updates' = updates + 1
    /\ Store(w2)
    /\ prevGameState' = gameState
    /\ prevAlive' = AliveAlienCount
    /\ sinceEntry' = 0
    /\ UNCHANGED <<aliensAcquired, bulletsAcquired, lastInput>>

CallFromPlayToWinState == LeavePlay(FromPlayToWinState(World))
CallFromPlayToLoseState == LeavePlay(FromPlayToLoseState(World))

LeaveNext ==
    \/ StepNext
    \/ CallFromPlayToWinState
    \/ CallFromPlayToLoseState

LeaveSpec == StepInit /\ [][LeaveNext]_vars

\* ------------------------------------------------------- rapid fire
\* The loop from Initialize with the fire key going down as often as a call
\* can see it: at most once a call (IsKeyPressed is polled once, line 674).
\* Start is left on the first call and Ready after Threshold + 1 calls of
\* one tick; in Play the key goes down on every call but MaxIdleFrames of
\* them, until the cursor has gone once round the bullet pool.
PrePlayUpdates == 1 + Threshold + 1
FireUpdates == PrePlayUpdates + MAX_BULLET_COUNT + MaxIdleFrames + 2

FireNext ==
    \E pressed \in BOOLEAN :
        /\ updates < FireUpdates
        /\ \/ pressed
           \/ updates - bulletsAcquired < PrePlayUpdates + MaxIdleFrames
        /\ updates' = updates + 1
        /\ Update([HeldFire EXCEPT !.spacePressed = pressed])

FireSpec == Init /\ [][FireNext]_vars

\* ------------------------------------------------------------------ claims
Columns == spawnColumnMax - spawnColumnMin + 1

AllowedEdges ==
    {<<startState, readyState>>, <<readyState, playState>>,
     <<playState, winState>>, <<playState, loseState>>,
     <<winState, readyState>>, <<loseState, readyState>>,
     <<loseState, startState>>}

\* C2: from Initialize the game starts in Start, and an Update call changes
\* gameState only along Start->Ready, Ready->Play, Play->Win, Play->Lose,
\* Win->Ready, Lose->Ready and Lose->Start.
C2_OnlyAllowedEdges ==
    /\ gameState = startState
    /\ [][gameState' # gameState
            => <<gameState, gameState'>> \in AllowedEdges]_vars

\* Two edges have been taken: the run is in Play, entered from Ready.
C2_Witness ==
    /\ prevGameState = readyState /\ gameState = playState
    /\ aliensAcquired = Columns

\* Circle overlap: the centres are no further apart than the sum of the radii.
CircleOverlap(ax, ay, ra, bx, by, rb) ==
    (ax - bx) * (ax - bx) + (ay - by) * (ay - by) <= (ra + rb) * (ra + rb)

HitsAlien(b, a) ==
    CircleOverlap(b.x, b.y, Px(playerBulletRadius),
                  a.x + Px(alienHalfWidth), a.y + Px(alienHalfWidth),
                  Px(alienHalfWidth))

HitsPlayer(b, p) ==
    CircleOverlap(b.x, b.y, Px(alienBulletRadius),
                  p.x + Px(playerHalfWidth), p.y + Px(playerHalfHeight),
                  Px(playerHalfWidth))

\* C3: in Play, when a player-owned bullet, moved by this Update call,
\* overlaps the last alive alien, no alien is alive and the state is Win at
\* the end of the call.
C3_LastAlienHitWins ==
    [][(/\ gameState = playState
        /\ AliveAlienCount = 1
        /\ \E b \in BulletSlots, a \in AlienSlots :
              /\ bullets[b].active /\ bullets[b].belongsToPlayer
              /\ bulletsAcquired' = bulletsAcquired
              /\ aliens[a].alive
              /\ HitsAlien(bullets'[b], aliens'[a]))
        => (AliveAlienCount' = 0 /\ gameState' = winState)]_vars

\* The alien bullets of the call's first state that overlap the player once
\* moved (slots the call did not acquire anew).
PlayerHitters ==
    {b \in BulletSlots :
        /\ bullets[b].active /\ ~bullets[b].belongsToPlayer
        /\ bulletsAcquired' = bulletsAcquired
        /\ HitsPlayer(bullets'[b], player')}

\* C4: in Play, when an active alien-owned bullet overlaps the player during
\* an Update call, the state is Lose at the end of the call and the bullets
\* after the hitting one are not moved.
C4_PlayerHitLoses ==
    [][(gameState = playState /\ PlayerHitters # {})
        => /\ gameState' = loseState
           /\ \A j \in BulletSlots :
                 (\A b \in PlayerHitters : j > b) => bullets'[j] = bullets[j]]_vars

LoseTimerExpires ==
    gameState = loseState /\ loseElapsed + frameTime' > Threshold

PlayerAtInitialPosition(p) ==
    p.x = Px(initialPlayerX) /\ p.y = Px(initialPlayerY)

\* C5: an Update call in Lose that finds the lose timer above 3 seconds with
\* lives remaining after the decrement ends in Ready with one life fewer, no
\* alien alive and the player at its initial position.
C5_LoseToReadyTakesALife ==
    [][(LoseTimerExpires /\ player.livesRemaining >= 2)
        => /\ gameState' = readyState
           /\ player'.livesRemaining = player.livesRemaining - 1
           /\ AliveAlienCount' = 0
           /\ PlayerAtInitialPosition(player')]_vars

\* C6: an Update call in Lose that finds the lose timer above 3 seconds with
\* the last life in play (lives = 1) ends in Start with lives = 3 and wave = 1.
C6_LoseToStartResets ==
    [][(LoseTimerExpires /\ player.livesRemaining = 1)
        => /\ gameState' = startState
           /\ player'.livesRemaining = 3
           /\ wave' = 1]_vars

\* C7: an Update call in Win that finds the win timer above 3 seconds ends in
\* Ready with the wave number one higher and the player at its initial
\* position.
C7_WinToReadyNextWave ==
    [][(gameState = winState /\ winElapsed + frameTime' > Threshold)
        => /\ gameState' = readyState
           /\ wave' = wave + 1
           /\ PlayerAtInitialPosition(player')]_vars

Leaves(s) == (gameState = s) ~> (gameState # s)

\* C8, as written: every non-Play state (Start, Ready, Win, Lose) is
\* eventually left when Update keeps being called with positive frame time,
\* whatever the input.
C8_EveryWaitEnds ==
    Leaves(startState) /\ Leaves(readyState) /\ Leaves(winState)
        /\ Leaves(loseState)

\* C8, as amended: Ready, Win and Lose are each eventually left when Update
\* keeps being called with positive frame time, whatever the input; Start is
\* left only by a call that finds the fire key held.
C8_TimedWaitsEnd ==
    /\ Leaves(readyState) /\ Leaves(winState) /\ Leaves(loseState)
    /\ [][(gameState = startState /\ gameState' # startState)
            => lastInput'.spaceDown]_vars

\* Win has just been left for Ready by its timer, no key held.
C8_Witness ==
    /\ prevGameState = winState /\ gameState = readyState
    /\ winElapsed > Threshold /\ ~lastInput.spaceDown

\* C9: Ready, Win and Lose are left only once the frame time accumulated
\* since the state was entered exceeds 3 seconds, at the first entry and at
\* every later one; Ready spawns on leaving and on no other call.
C9_WaitCountsFromEntry ==
    [][/\ (gameState \in {readyState, winState, loseState}
            /\ gameState' # gameState)
          => sinceEntry + frameTime' > Threshold
       /\ (gameState = readyState /\ gameState' = readyState)
          => aliens' = aliens]_vars

\* C10: in both pools the cursor stays in 0..N-1 and equals the number of
\* acquisitions modulo N, and the k-th acquisition marks slot (k-1) mod N
\* live, whether or not that slot was live before.
C10_RingAcquire ==
    /\ [](/\ nextAvailableAlien \in AlienSlots
          /\ nextAvailableBullet \in BulletSlots
          /\ nextAvailableAlien = aliensAcquired % MAX_ALIEN_COUNT
          /\ nextAvailableBullet = bulletsAcquired % MAX_BULLET_COUNT)
    /\ [][/\ \A k \in (aliensAcquired + 1)..aliensAcquired' :
                aliens'[(k - 1) % MAX_ALIEN_COUNT].alive
          /\ \A k \in (bulletsAcquired + 1)..bulletsAcquired' :
                /\ bullets'[(k - 1) % MAX_BULLET_COUNT].active
                /\ bullets'[(k - 1) % MAX_BULLET_COUNT].belongsToPlayer]_vars

\* The (N+1)-th bullet has been acquired: it sits in slot 0, the slot of the
\* first, and the cursor is at 1.
C10_Witness ==
    /\ bulletsAcquired = MAX_BULLET_COUNT + 1
    /\ nextAvailableBullet = 1
    /\ bullets[0].active /\ bullets[0].belongsToPlayer
    /\ prevGameState = playState

AlienStep(dir) == IF dir = 0 THEN alienSpeed ELSE 0 - alienSpeed
AlienRightBound == Px(cameraBoundsX + cameraBoundsWidth - alienWidth)
AlienLeftBound == Px(cameraBoundsX)

\* C11: in one Play call every live alien moves horizontally by the same
\* amount, in the direction the formation had when the call began; when an
\* alien passes the right bound in the call the direction is left from the
\* end of the call on, so that the next call moves every live alien left
\* (and the same at the left bound, mirrored).
C11_FormationMovesAsOne ==
    [][gameState = playState
        => /\ \A i \in AlienSlots :
                 aliens[i].alive
                    => /\ aliens'[i].alive
                       /\ aliens'[i].x = aliens[i].x + AlienStep(alienDirection)
                       /\ aliens'[i].y = aliens[i].y
           /\ (alienDirection = 0
                 /\ \E i \in AlienSlots :
                       aliens'[i].alive /\ aliens'[i].x > AlienRightBound)
                 => alienDirection' = 1
           /\ (alienDirection = 1
                 /\ \E i \in AlienSlots :
                       aliens'[i].alive /\ aliens'[i].x < AlienLeftBound)
                 => alienDirection' = 0]_vars

\* The call after the one in which an alien passed the right bound: the
\* formation has moved left, its rightmost alien back on the bound.
C11_Witness ==
    /\ gameState = playState /\ prevGameState = playState
    /\ alienDirection = 1
    /\ AliveAlienCount = Columns
    /\ \E i \in AlienSlots : aliens[i].alive /\ aliens[i].x = AlienRightBound
    /\ \A i \in AlienSlots : aliens[i].alive => aliens[i].x <= AlienRightBound


\* C12: the wave number is 1 after Initialize, is always at least 1, and
\* from one Update call to the next never decreases, except when the
\* Lose->Start transition resets it to 1.
C12_WaveNeverDecreases ==
    /\ (updates = 0 /\ gameState = startState) => wave = 1
    /\ [](wave >= 1)
    /\ [][\/ wave' >= wave
          \/ (gameState = loseState /\ gameState' = startState /\ wave' = 1)]_vars

\* Lose has just been left for Start, the last of the transitions, from a
\* wave above the first.
C12_Witness ==
    /\ prevGameState = loseState /\ gameState = startState
    /\ player.livesRemaining = 0
    /\ wave > 1

\* C13: leaving Play clears all bullets: after the Play->Win and the
\* Play->Lose transition no bullet slot is active, and after the transition
\* is applied a second time the number of active bullets is still 0.
C13_LeavingPlayClearsBullets ==
    [][(/\ gameState \in {playState, winState, loseState}
        /\ gameState' \in {winState, loseState})
        => Cardinality(ActiveBullets(bullets')) = 0]_vars

\* C14: an Update call in Start with the fire key held ends in Ready and,
\* the frame time read apart, changes nothing else: the player with its
\* lives, the wave, both pools and both cursors, the timers, the animation
\* and the formation direction are as before; without the fire key held the
\* call ends in Start.
C14_StartLeavesOnFire ==
    [][gameState = startState
        => /\ lastInput'.spaceDown => gameState' = readyState
           /\ ~lastInput'.spaceDown => gameState' = startState
           /\ player' = player /\ wave' = wave
           /\ aliens' = aliens /\ nextAvailableAlien' = nextAvailableAlien
           /\ bullets' = bullets
           /\ nextAvailableBullet' = nextAvailableBullet
           /\ UNCHANGED <<readyElapsed, winElapsed, loseElapsed,
                          alienFrameIndex, alienFrameElapsed,
                          alienDirection>>]_vars

\* Start has been left for Ready by the second call, the first one having
\* found the fire key up.
C14_Witness ==
    /\ updates = 2
    /\ prevGameState = startState /\ gameState = readyState
    /\ lastInput.spaceDown
    /\ player = InitialPlayer /\ readyElapsed = 0

\* C15: whatever direction keys the calls find held, both at once included,
\* the player's x stays within the play area:
\* cameraBounds.x <= x <= cameraBounds.x + cameraBounds.width - playerWidth,
\* that is 360 <= x <= 592.
C15_PlayerStaysInBounds ==
    /\ Px(cameraBoundsX) <= player.x
    /\ player.x <= Px(cameraBoundsX + cameraBoundsWidth - playerWidth)
    /\ Px(360) <= player.x /\ player.x <= Px(592)

\* A Play call with the right key alone held has left the player on the
\* right bound, less than a step from where the key found it.
C15_Witness ==
    /\ updates = 1 /\ prevGameState = playState
    /\ lastInput.right /\ ~lastInput.left
    /\ player.x = Px(cameraBoundsX + cameraBoundsWidth - playerWidth)

\* C16: at the end of every Play call, whatever the bullet pool held when
\* the call began, no active player bullet is above the top bound of the
\* play area and no active alien bullet is below its bottom bound.
C16_BulletsLeaveAtBothBounds ==
    [][gameState = playState
        => \A i \in BulletSlots :
              bullets'[i].active
                 => IF bullets'[i].belongsToPlayer
                    THEN bullets'[i].y >= Px(cameraBoundsY)
                    ELSE bullets'[i].y
                            <= Px(cameraBoundsY + cameraBoundsHeight)]_vars

\* The slots of the alien pool the call acquires (the spawn of Ready->Play).
AcquiredAlienSlots ==
    {(k - 1) % MAX_ALIEN_COUNT : k \in (aliensAcquired + 1)..aliensAcquired'}

\* C17: an Update call that begins in Start, Ready, Win or Lose creates no
\* bullet and moves no active bullet (the bullet pool and its cursor are as
\* before), moves no live alien (every live alien is as before, in every
\* slot the spawn of this call does not acquire) and moves the player by no
\* key (the player is as before).
C17_PlayOnlyUnderPlay ==
    [][(gameState \in {startState, readyState, winState, loseState})
        => /\ bullets' = bullets
           /\ nextAvailableBullet' = nextAvailableBullet
           /\ bulletsAcquired' = bulletsAcquired
           /\ \A i \in AlienSlots \ AcquiredAlienSlots :
                 aliens[i].alive => aliens'[i] = aliens[i]
           /\ player' = player]_vars

\* An Update call has begun and ended in Lose with aliens alive and a
\* bullet in flight, as Play left them.
C17_Witness ==
    /\ updates = 2
    /\ prevGameState = loseState /\ gameState = loseState
    /\ loseElapsed > 0 /\ loseElapsed = frameTime
    /\ AliveAlienCount > 0
    /\ \E i \in BulletSlots : bullets[i].active /\ bullets[i].belongsToPlayer

\* C18: no two aliens spawned by one Ready->Play transition share a
\* position: for every wave w >= 1 the clamp(w/3 + 1, 1, 5) rows are at
\* distinct y coordinates, so each (row, column) pair has its own position.
C18_SpawnPositionsDistinct ==
    [][(gameState = readyState /\ gameState' = playState)
        => /\ \A i, j \in AcquiredAlienSlots :
                 i # j => <<aliens'[i].x, aliens'[i].y>>
                             # <<aliens'[j].x, aliens'[j].y>>
           /\ Cardinality({aliens'[i].y : i \in AcquiredAlienSlots})
                 = Clamp(wave \div 3 + 1, 1, 5)]_vars

\* The bullet slots a call makes active.
FiredSlots == {i \in BulletSlots : bullets'[i].active /\ ~bullets[i].active}
BulletStartY == Px(initialPlayerY - playerBulletRadius)

\* C19: the bullet ring never overwrites an active bullet.  A call fires at
\* most one bullet; it starts at y = 262 and every Play call, the one that
\* fires it included, raises it by 2; it is inactive once y < 150, within 57
\* calls; so whenever a call fires, the slot under the cursor is inactive.
C19_RingNeverOverwritesActive ==
    /\ [](\A i \in BulletSlots :
            bullets[i].active
               => /\ bullets[i].belongsToPlayer
                  /\ bullets[i].y >= Px(150)
                  /\ bullets[i].y <= Px(262) - Px(2))
    /\ [](Cardinality(ActiveBullets(bullets)) <= 57)
    /\ [][/\ Cardinality(FiredSlots) <= 1
          /\ bulletsAcquired' = bulletsAcquired + Cardinality(FiredSlots)
          /\ bulletsAcquired' # bulletsAcquired
                => /\ ~bullets[nextAvailableBullet].active
                   /\ FiredSlots = {nextAvailableBullet}
                   /\ bullets'[nextAvailableBullet].y
                         = BulletStartY - Px(playerBulletSpeed)
                   /\ BulletStartY = Px(262)
          /\ \A i \in BulletSlots :
                bullets[i].active
                   => /\ bullets'[i].y = bullets[i].y - Px(2)
                      /\ bullets'[i].active = (bullets'[i].y >= Px(150))]_vars

\* The 65th bullet has been fired into slot 0, which the first bullet had
\* left inactive; the slots fired after it are still in flight.
C19_Witness ==
    /\ bulletsAcquired = MAX_BULLET_COUNT + 1
    /\ prevGameState = playState /\ lastInput.spacePressed
    /\ nextAvailableBullet = 1
    /\ bullets[0].active /\ bullets[0].y = BulletStartY - Px(playerBulletSpeed)
    /\ bullets[MAX_BULLET_COUNT - 1].active
    /\ ~bullets[1].active

\* C20: once the wave is spawned, every live alien's x stays within one
\* movement step of the horizontal bounds,
\* cameraBounds.x - alienSpeed <= x
\*     <= cameraBounds.x + cameraBounds.width - alienWidth + alienSpeed
\* (359.5 <= x <= 592.5, which is 719 and 1185 half pixels), and the
\* horizontal offsets between live aliens never change.
C20_FormationStaysInBounds ==
    /\ [](\A i \in AlienSlots :
            aliens[i].alive
               => /\ AlienLeftBound - alienSpeed <= aliens[i].x
                  /\ aliens[i].x <= AlienRightBound + alienSpeed
                  /\ 719 <= aliens[i].x /\ aliens[i].x <= 1185)
    /\ [][\A i, j \in AlienSlots :
            (aliens[i].alive /\ aliens[j].alive)
               => /\ aliens'[i].alive /\ aliens'[j].alive
                  /\ aliens'[i].x - aliens'[j].x
                        = aliens[i].x - aliens[j].x]_vars

\* The formation has crossed the play area twice: its leftmost alien is
\* half a pixel past the left bound and the direction is right again.
C20_Witness ==
    /\ gameState = playState /\ alienDirection = 0
    /\ AliveAlienCount = Columns
    /\ \E i \in AlienSlots :
          aliens[i].alive /\ aliens[i].x = AlienLeftBound - alienSpeed
    /\ \E i \in AlienSlots :
          aliens[i].alive /\ aliens[i].x = AlienLeftBound - alienSpeed
                                             + Px((Columns - 1) * (alienWidth + alienHalfWidth))

====
